---- MODULE Spec2Model ----
(***************************************************************************)
(* Screenshot capture pipeline of src/screenshots/capturer.js.             *)
(*                                                                         *)
(* One Capturer serves a bounded number of capture invocations             *)
(* (captureAction / captureError).  Every `await` of _capture is a         *)
(* suspension point: pc[i] names the collaborator invocation i is waiting  *)
(* for, and the action "<collaborator>Done(i)" is the completion of that   *)
(* collaborator together with the synchronous code that follows it up to   *)
(* the next await (or up to the return / throw of the invocation).         *)
(*                                                                         *)
(* utils/async-queue, utils/correct-file-path, utils/path-pattern and      *)
(* screenshots/crop are not among the sources; they are modelled from the  *)
(* design document (sections 4.1, 4.2, 6).                                 *)
(***************************************************************************)
EXTENDS Integers, Sequences, FiniteSets, TLC

\* ------------------------------------------------------------------ bounds
MaxInv == 2                      \* number of capture invocations per run

Inv == 1..MaxInv

\* ------------------------------------------------------------- path values
\* A path is a directory (sequence of segments) and a file name with its
\* extension, so that dirname, basename, join and prefix replacement are
\* computed rather than assumed.
baseScreenshotsPath == <<"screenshots">>
tempDirectoryPath   == <<"tmp">>
DEFAULT_SCREENSHOT_EXTENSION == "png"

NoPath == [dir |-> <<>>, name |-> "", ext |-> ""]

\* explicit destination paths a caller may pass (customPath); NoPath = none
CustomPaths == { [dir |-> <<>>, name |-> "a", ext |-> ""],
                 [dir |-> <<>>, name |-> "a", ext |-> "png"] }

IndexName == <<"1", "2", "3", "4", "5", "6", "7", "8", "9">>

InitialFileIndex == 1

joinPath(base, path) == [path EXCEPT !.dir = base \o path.dir]

dirname(path) == path.dir

basename(path) == [dir |-> <<>>, name |-> path.name, ext |-> path.ext]

\* utils/correct-file-path: a missing extension becomes the default one
correctFilePath(path, extension) ==
    IF path.ext = "" THEN [path EXCEPT !.ext = extension] ELSE path

IsPrefix(p, s) == Len(p) <= Len(s) /\ SubSeq(s, 1, Len(p)) = p

\* screenshotPath.replace(baseScreenshotsPath, tempDirectoryPath)
replacePrefix(path, from, to) ==
    IF IsPrefix(from, path.dir)
    THEN [path EXCEPT !.dir = to \o SubSeq(path.dir, Len(from) + 1, Len(path.dir))]
    ELSE path

\* pathPattern.getPath(forError): the pattern rendered with the counter of
\* the reason; error screenshots go under errors/
getPath(forErr, fIdx, eIdx) ==
    IF forErr
    THEN [dir |-> <<"errors">>, name |-> IndexName[eIdx], ext |-> DEFAULT_SCREENSHOT_EXTENSION]
    ELSE [dir |-> <<>>,         name |-> IndexName[fIdx], ext |-> DEFAULT_SCREENSHOT_EXTENSION]

_joinWithBaseScreenshotPath(path) == joinPath(baseScreenshotsPath, path)

_getCustomScreenshotPath(custom) ==
    _joinWithBaseScreenshotPath(correctFilePath(custom, DEFAULT_SCREENSHOT_EXTENSION))

_getScreenshotPath(forErr, fIdx, eIdx) ==
    _joinWithBaseScreenshotPath(getPath(forErr, fIdx, eIdx))

_getThumbnailPath(path) ==
    joinPath(dirname(path) \o <<"thumbnails">>, basename(path))

tempPathOf(path) == replacePrefix(path, baseScreenshotsPath, tempDirectoryPath)

\* ------------------------------------------------------------ image values
\* Bytes are identified by the raw capture that produced them.
NoData == [by |-> 0, cropped |-> FALSE, thumb |-> FALSE]

RawImage(i) == [by |-> i, cropped |-> FALSE, thumb |-> FALSE]

CroppedOf(img) == [img EXCEPT !.cropped = TRUE]

ThumbnailOf(img) == [img EXCEPT !.thumb = TRUE]

\* ------------------------------------------------------ page geometry
MaxDim == 2
Dim == 0..MaxDim

\* device pixel ratios as fractions <<numerator, denominator>>
DevicePixelRatios == {<<1, 1>>, <<3, 2>>, <<2, 1>>}

\* options.pageDimensions absent; the null result; no result yet
NoGeometry == [undefined |-> TRUE]
Null == [null |-> TRUE]
NotComputed == [pending |-> TRUE]

PageGeometries ==
    [innerWidth : Dim, documentWidth : Dim, bodyWidth : Dim,
     innerHeight : Dim, documentHeight : Dim, bodyHeight : Dim,
     dpr : DevicePixelRatios]

max(a, b) == IF a >= b THEN a ELSE b

\* Math.floor(value * dpr)
floorTimes(value, dpr) == (value * dpr[1]) \div dpr[2]

\* the larger of the two dimensions whatever the viewport
dimensionIgnoringViewport(fullDimension, documentDimension, bodyDimension) ==
    max(documentDimension, bodyDimension)

_getDimensionWithoutScrollbar(fullDimension, documentDimension, bodyDimension) ==
    IF bodyDimension > fullDimension THEN documentDimension
    ELSE IF documentDimension > fullDimension THEN bodyDimension
    ELSE max(documentDimension, bodyDimension)

_getClientAreaDimensions(pd) ==
    IF pd = NoGeometry
    THEN Null
    ELSE [width  |-> floorTimes(_getDimensionWithoutScrollbar(
                         pd.innerWidth, pd.documentWidth, pd.bodyWidth), pd.dpr),
          height |-> floorTimes(_getDimensionWithoutScrollbar(
                         pd.innerHeight, pd.documentHeight, pd.bodyHeight), pd.dpr)]

VARIABLES
    enabled,            \* this.enabled
    autoTakeOnFails,    \* this.autoTakeOnFails
    defaultThumbnails,  \* this.thumbnails
    fileIndex,          \* pathPattern.data.fileIndex
    errorFileIndex,     \* pathPattern.data.errorFileIndex
    actions,            \* async-queue: key -> invocations pending, head in flight
    warnings,           \* warningLog: paths of the screenshotRewritingError warnings
    fs,                 \* files: path -> bytes
    dirs,               \* directories created by makeDir
    screenshots,        \* testEntry.screenshots
    pc,                 \* per invocation: the await it is suspended at
    forError,           \* per invocation: the reason
    explicitPath,       \* per invocation: options.customPath was supplied
    screenshotPath,     \* per invocation: resolved destination
    cropRequested,      \* per invocation: cropDimensions or markSeed passed to the cropper
    produced,           \* per invocation: did the provider create the staging file
    image,              \* per invocation: image / croppedImage local
    screenshotData,     \* per invocation: the closure variable screenshotData
    pageDimensions,     \* the page geometry of a request, NoGeometry when absent
    clientAreaDimensions \* what _getClientAreaDimensions returned for it

config == <<enabled, autoTakeOnFails, defaultThumbnails>>
counters == <<fileIndex, errorFileIndex>>
disk == <<fs, dirs>>
locals == <<forError, explicitPath, screenshotPath, cropRequested,
            produced, image, screenshotData>>
geometry == <<pageDimensions, clientAreaDimensions>>
vars == <<config, counters, actions, warnings, disk, screenshots, pc, locals,
          geometry>>


\* ------------------------------------------------- utils/async-queue (4.2)
\* A key is present while an operation on it is pending or in flight; the
\* head of its sequence is the operation in flight (or the next to start).
isInQueue(q, key) == key \in DOMAIN q

addToQueue(q, key, i) ==
    [k \in DOMAIN q \cup {key} |->
        IF k = key
        THEN (IF key \in DOMAIN q THEN Append(q[key], i) ELSE <<i>>)
        ELSE q[k]]

\* the queued operation of invocation i is the next one to run under its key
isTurn(q, i) == \E k \in DOMAIN q : Head(q[k]) = i

\* the operation of invocation i, in flight under its key, has settled: the
\* next one may run; a drained key is evicted
releaseKey(q, i) ==
    [k \in {k \in DOMAIN q : q[k] # <<i>>} |->
        IF Head(q[k]) = i THEN Tail(q[k]) ELSE q[k]]

\* a queue that keeps the key of a rejected operation
keepKeyOnFailure(q, i) == q

\* section 7: the key is released on failure exactly as on success
releaseOnFailure(q, i) == releaseKey(q, i)

\* ------------------------------------------------ decisions of _capture
\* a capturer that never short-circuits
neverDisabled(en) == FALSE

\* line 127
isDisabled(en) == ~en

\* line 130
effectiveThumbnails(opt, dflt) == IF opt = "undefined" THEN dflt ELSE opt = "true"

\* line 132
resolvePath(forErr, custom, fIdx, eIdx) ==
    IF custom # NoPath
    THEN _getCustomScreenshotPath(custom)
    ELSE _getScreenshotPath(forErr, fIdx, eIdx)

\* fileIndex advanced whatever the reason
fileIndexAfterAnyReason(forErr, custom, fIdx) ==
    IF custom = NoPath THEN fIdx + 1 ELSE fIdx

\* _incrementFileIndexes, reached only through _getScreenshotPath
fileIndexAfter(forErr, custom, fIdx) ==
    IF custom = NoPath /\ ~forErr THEN fIdx + 1 ELSE fIdx

\* errorFileIndex advanced for explicit paths too
errorFileIndexAfterAnyPath(forErr, custom, eIdx) ==
    IF forErr THEN eIdx + 1 ELSE eIdx

errorFileIndexAfter(forErr, custom, eIdx) ==
    IF custom = NoPath /\ forErr THEN eIdx + 1 ELSE eIdx

\* a warning only when an operation is already waiting behind the one in flight
collidesWhenWaiting(q, path) == isInQueue(q, path) /\ Len(q[path]) >= 2

\* a warning whenever any key is busy
collidesAnyKey(q, path) == DOMAIN q # {}

\* line 137
collides(q, path) == isInQueue(q, path)

\* every pipeline queued under one key
queueKeyShared(path, custom) == _joinWithBaseScreenshotPath(NoPath)

\* the pipeline queued under the path as the caller wrote it
queueKeyUncorrected(path, custom) ==
    IF custom # NoPath THEN _joinWithBaseScreenshotPath(custom) ELSE path

\* line 140: the key the pipeline is queued under
queueKey(path, custom) == path

\* the pipeline body run at once instead of being handed to the queue
mayStartUnqueued(q, i) == TRUE

\* line 140: the pipeline body runs only as the function the queue calls
mayStart(q, i) == isTurn(q, i)

\* _isScreenshotCaptured: a failing stat is swallowed and counts as "no file"
_isScreenshotCaptured(files, path, statFails) ==
    IF statFails THEN FALSE ELSE path \in DOMAIN files

\* the publish step never skipped
skipsPublishNever(forErr, autoTake) == FALSE

\* line 171
skipsPublish(forErr, autoTake) == forErr /\ autoTake

writeTo(files, path, data) ==
    [p \in DOMAIN files \cup {path} |-> IF p = path THEN data ELSE files[p]]

\* a record that never carries the reason
ScreenshotRecordNeverOnFail(path, data, forErr) ==
    [screenshotPath |-> path,
     screenshotData |-> data,
     thumbnailPath  |-> _getThumbnailPath(path),
     takenOnFail    |-> FALSE]

\* lines 181-194; testRunId, userAgent and quarantineAttempt are read-only
\* values of the test entry and the pattern, the same in every record
ScreenshotRecord(path, data, forErr) ==
    [screenshotPath |-> path,
     screenshotData |-> data,
     thumbnailPath  |-> _getThumbnailPath(path),
     takenOnFail    |-> forErr]

\* ------------------------------------------------------------------- Init
\* The capturer right after construction, with or without a base directory
\* and with either autoTakeOnFails; thumbnails defaults to on and is
\* overridden per call.
Init ==
    /\ enabled \in BOOLEAN
    /\ autoTakeOnFails \in BOOLEAN
    /\ defaultThumbnails = TRUE
    /\ fileIndex = InitialFileIndex
    /\ errorFileIndex = InitialFileIndex
    /\ actions = <<>>
    /\ warnings = <<>>
    /\ fs = <<>>
    /\ dirs = {}
    /\ screenshots = <<>>
    /\ pc = [i \in Inv |-> "idle"]
    /\ forError = [i \in Inv |-> FALSE]
    /\ explicitPath = [i \in Inv |-> FALSE]
    /\ screenshotPath = [i \in Inv |-> NoPath]
    /\ cropRequested = [i \in Inv |-> FALSE]
    /\ produced = [i \in Inv |-> "pending"]
    /\ image = [i \in Inv |-> NoData]
    /\ screenshotData = [i \in Inv |-> NoData]
    /\ pageDimensions = NoGeometry
    /\ clientAreaDimensions = NotComputed

\* ------------------------------------------------ leaving the pipeline
\* The queued function of invocation i has returned: the key is released,
\* the await of line 140 resumes, the record is pushed and the path returned
\* (lines 179-198).  The locals of the invocation die with it.
Finish(i, data) ==
    /\ actions' = releaseKey(actions, i)
    /\ screenshots' = Append(screenshots,
                             ScreenshotRecord(screenshotPath[i], data, forError[i]))
    /\ pc' = [pc EXCEPT ![i] = "returned"]
    /\ produced' = [produced EXCEPT ![i] = "pending"]
    /\ image' = [image EXCEPT ![i] = NoData]
    /\ screenshotData' = [screenshotData EXCEPT ![i] = NoData]

\* the failure swallowed after the queue: a record is pushed all the same
ThrowAfterRecording(i) ==
    /\ actions' = releaseOnFailure(actions, i)
    /\ screenshots' = Append(screenshots,
                             ScreenshotRecord(screenshotPath[i], NoData, forError[i]))
    /\ pc' = [pc EXCEPT ![i] = "threw"]
    /\ produced' = [produced EXCEPT ![i] = "pending"]
    /\ image' = [image EXCEPT ![i] = NoData]
    /\ screenshotData' = [screenshotData EXCEPT ![i] = NoData]

\* A collaborator raised inside the queued function: the key is released,
\* the await of line 140 rejects and _capture throws to its caller.
Throw(i) ==
    /\ actions' = releaseOnFailure(actions, i)
    /\ pc' = [pc EXCEPT ![i] = "threw"]
    /\ produced' = [produced EXCEPT ![i] = "pending"]
    /\ image' = [image EXCEPT ![i] = NoData]
    /\ screenshotData' = [screenshotData EXCEPT ![i] = NoData]
    /\ UNCHANGED screenshots

\* ---------------------------------------------------------------- actions
\* captureAction / captureError up to the await of line 140 (lines 126-140).
\* Invocations are numbered in the order they are made.
Capture(i, forErr, custom) ==
    /\ pc[i] = "idle"
    /\ \A j \in Inv : j < i => pc[j] # "idle"
    /\ forError' = [forError EXCEPT ![i] = forErr]
    /\ explicitPath' = [explicitPath EXCEPT ![i] = (custom # NoPath)]
    /\ UNCHANGED <<geometry, config, disk, screenshots, cropRequested, produced, image,
                   screenshotData>>
    /\ IF isDisabled(enabled)
       THEN /\ pc' = [pc EXCEPT ![i] = "returnedNull"]
            /\ UNCHANGED <<counters, actions, warnings, screenshotPath>>
       ELSE LET path == resolvePath(forErr, custom, fileIndex, errorFileIndex)
            IN  /\ fileIndex' = fileIndexAfter(forErr, custom, fileIndex)
                /\ errorFileIndex' = errorFileIndexAfter(forErr, custom, errorFileIndex)
                /\ screenshotPath' = [screenshotPath EXCEPT ![i] = path]
                /\ warnings' = IF collides(actions, path)
                               THEN Append(warnings, path) ELSE warnings
                /\ actions' = addToQueue(actions, queueKey(path, custom), i)
                /\ pc' = [pc EXCEPT ![i] = "queued"]

\* the queue runs the function of invocation i (lines 141-152)
StartPipeline(i) ==
    /\ pc[i] = "queued"
    /\ mayStart(actions, i)
    /\ pc' = [pc EXCEPT ![i] = "takeScreenshot"]
    /\ UNCHANGED <<geometry, config, counters, actions, warnings, disk, screenshots, locals>>

\* provider.takeScreenshot settles (lines 152-154)
takeScreenshotDone(i, outcome) ==
    /\ pc[i] = "takeScreenshot"
    /\ UNCHANGED <<geometry, config, counters, warnings, dirs, forError, explicitPath,
                   screenshotPath, cropRequested>>
    /\ CASE outcome = "file" ->
              /\ fs' = writeTo(fs, tempPathOf(screenshotPath[i]), RawImage(i))
              /\ produced' = [produced EXCEPT ![i] = "created"]
              /\ pc' = [pc EXCEPT ![i] = "stat"]
              /\ UNCHANGED <<actions, screenshots, image, screenshotData>>
         [] outcome = "nofile" ->
              /\ produced' = [produced EXCEPT ![i] = "none"]
              /\ pc' = [pc EXCEPT ![i] = "stat"]
              /\ UNCHANGED <<fs, actions, screenshots, image, screenshotData>>
         [] outcome = "throw" ->
              /\ Throw(i)
              /\ UNCHANGED fs

\* stat settles inside _isScreenshotCaptured (lines 154-157)
statDone(i, statFails) ==
    /\ pc[i] = "stat"
    /\ UNCHANGED <<geometry, config, counters, warnings, disk, forError, explicitPath,
                   screenshotPath, cropRequested>>
    /\ IF _isScreenshotCaptured(fs, tempPathOf(screenshotPath[i]), statFails)
       THEN /\ pc' = [pc EXCEPT ![i] = "readPngFile"]
            /\ UNCHANGED <<actions, screenshots, produced, image, screenshotData>>
       ELSE Finish(i, screenshotData[i])

\* the cropper called only when the request carries cropDimensions or markSeed
readPngFileDoneCropGuarded(i, fails, crop) ==
    /\ pc[i] = "readPngFile"
    /\ UNCHANGED <<geometry, config, counters, warnings, disk, forError, explicitPath,
                   screenshotPath>>
    /\ IF fails \/ tempPathOf(screenshotPath[i]) \notin DOMAIN fs
       THEN Throw(i) /\ UNCHANGED cropRequested
       ELSE /\ image' = [image EXCEPT ![i] = IF crop THEN fs[tempPathOf(screenshotPath[i])] ELSE NoData]
            /\ cropRequested' = [cropRequested EXCEPT ![i] = crop]
            /\ pc' = [pc EXCEPT ![i] = IF crop THEN "cropScreenshot" ELSE "readFile"]
            /\ UNCHANGED <<actions, screenshots, produced, screenshotData>>

\* readPngFile settles and cropScreenshot is called (lines 157-164); crop is
\* whether the request carries cropDimensions or markSeed, read here
readPngFileDone(i, fails, crop) ==
    /\ pc[i] = "readPngFile"
    /\ UNCHANGED <<geometry, config, counters, warnings, disk, forError, explicitPath,
                   screenshotPath>>
    /\ IF fails \/ tempPathOf(screenshotPath[i]) \notin DOMAIN fs
       THEN Throw(i) /\ UNCHANGED cropRequested
       ELSE /\ image' = [image EXCEPT ![i] = fs[tempPathOf(screenshotPath[i])]]
            /\ cropRequested' = [cropRequested EXCEPT ![i] = crop]
            /\ pc' = [pc EXCEPT ![i] = "cropScreenshot"]
            /\ UNCHANGED <<actions, screenshots, produced, screenshotData>>

\* cropScreenshot settles (lines 159-169): a modified image, or the
\* sentinel for "no crop applied"
cropScreenshotDone(i, outcome) ==
    /\ pc[i] = "cropScreenshot"
    /\ outcome = "cropped" => cropRequested[i]
    /\ cropRequested' = [cropRequested EXCEPT ![i] = FALSE]
    /\ UNCHANGED <<geometry, config, counters, warnings, disk, forError, explicitPath,
                   screenshotPath>>
    /\ CASE outcome = "cropped" ->
              /\ image' = [image EXCEPT ![i] = CroppedOf(image[i])]
              /\ pc' = [pc EXCEPT ![i] = "writePng"]
              /\ UNCHANGED <<actions, screenshots, produced, screenshotData>>
         [] outcome = "none" ->
              /\ image' = [image EXCEPT ![i] = NoData]
              /\ pc' = [pc EXCEPT ![i] = "readFile"]
              /\ UNCHANGED <<actions, screenshots, produced, screenshotData>>
         [] outcome = "throw" -> Throw(i)

\* writePng of the cropped image settles (lines 167-169)
writePngDone(i, fails) ==
    /\ pc[i] = "writePng"
    /\ UNCHANGED <<geometry, config, counters, warnings, dirs, forError, explicitPath,
                   screenshotPath, cropRequested>>
    /\ IF fails
       THEN Throw(i) /\ UNCHANGED fs
       ELSE /\ fs' = writeTo(fs, tempPathOf(screenshotPath[i]), image[i])
            /\ pc' = [pc EXCEPT ![i] = "readFile"]
            /\ UNCHANGED <<actions, screenshots, produced, image, screenshotData>>

\* readFile settles (lines 169-174)
readFileDone(i, fails) ==
    /\ pc[i] = "readFile"
    /\ UNCHANGED <<geometry, config, counters, warnings, disk, forError, explicitPath,
                   screenshotPath, cropRequested>>
    /\ IF fails \/ tempPathOf(screenshotPath[i]) \notin DOMAIN fs
       THEN Throw(i)
       ELSE LET data == fs[tempPathOf(screenshotPath[i])]
            IN  IF skipsPublish(forError[i], autoTakeOnFails)
                THEN Finish(i, data)
                ELSE /\ screenshotData' = [screenshotData EXCEPT ![i] = data]
                     /\ pc' = [pc EXCEPT ![i] = "makeDir"]
                     /\ UNCHANGED <<actions, screenshots, produced, image>>

\* the thumbnail asked for before the destination is written
makeDirDoneThenThumbnail(i, fails) ==
    /\ pc[i] = "makeDir"
    /\ UNCHANGED <<geometry, config, counters, warnings, fs, forError, explicitPath,
                   screenshotPath, cropRequested>>
    /\ IF fails
       THEN Throw(i) /\ UNCHANGED dirs
       ELSE /\ dirs' = dirs \cup {dirname(screenshotPath[i])}
            /\ pc' = [pc EXCEPT ![i] = "generateThumbnail"]
            /\ UNCHANGED <<actions, screenshots, produced, image, screenshotData>>

\* makeDir settles (lines 174-175)
makeDirDone(i, fails) ==
    /\ pc[i] = "makeDir"
    /\ UNCHANGED <<geometry, config, counters, warnings, fs, forError, explicitPath,
                   screenshotPath, cropRequested>>
    /\ IF fails
       THEN Throw(i) /\ UNCHANGED dirs
       ELSE /\ dirs' = dirs \cup {dirname(screenshotPath[i])}
            /\ pc' = [pc EXCEPT ![i] = "writeFile"]
            /\ UNCHANGED <<actions, screenshots, produced, image, screenshotData>>

\* writeFile settles (lines 175-179); thumbsOpt is options.thumbnails, whose
\* default (line 130) is read here
writeFileDone(i, fails, thumbsOpt) ==
    /\ pc[i] = "writeFile"
    /\ UNCHANGED <<geometry, config, counters, warnings, dirs, forError, explicitPath,
                   screenshotPath, cropRequested>>
    /\ IF fails
       THEN Throw(i) /\ UNCHANGED fs
       ELSE /\ fs' = writeTo(fs, screenshotPath[i], screenshotData[i])
            /\ IF effectiveThumbnails(thumbsOpt, defaultThumbnails)
               THEN /\ pc' = [pc EXCEPT ![i] = "generateThumbnail"]
                    /\ UNCHANGED <<actions, screenshots, produced, image, screenshotData>>
               ELSE Finish(i, screenshotData[i])

\* generateThumbnail settles (lines 178-179)
generateThumbnailDone(i, fails) ==
    /\ pc[i] = "generateThumbnail"
    /\ UNCHANGED <<geometry, config, counters, warnings, dirs, forError, explicitPath,
                   screenshotPath, cropRequested>>
    /\ IF fails \/ screenshotPath[i] \notin DOMAIN fs
       THEN Throw(i) /\ UNCHANGED fs
       ELSE /\ fs' = writeTo(fs, _getThumbnailPath(screenshotPath[i]),
                             ThumbnailOf(fs[screenshotPath[i]]))
            /\ Finish(i, screenshotData[i])

ThumbnailOptions == {"undefined", "true", "false"}

Next ==
    \/ \E i \in Inv, forErr \in BOOLEAN, custom \in CustomPaths \cup {NoPath} :
          Capture(i, forErr, custom)
    \/ \E i \in Inv : StartPipeline(i)
    \/ \E i \in Inv, outcome \in {"file", "nofile", "throw"} : takeScreenshotDone(i, outcome)
    \/ \E i \in Inv, statFails \in BOOLEAN : statDone(i, statFails)
    \/ \E i \in Inv, fails \in BOOLEAN, crop \in BOOLEAN : readPngFileDone(i, fails, crop)
    \/ \E i \in Inv, outcome \in {"cropped", "none", "throw"} : cropScreenshotDone(i, outcome)
    \/ \E i \in Inv, fails \in BOOLEAN : writePngDone(i, fails)
    \/ \E i \in Inv, fails \in BOOLEAN : readFileDone(i, fails)
    \/ \E i \in Inv, fails \in BOOLEAN : makeDirDone(i, fails)
    \/ \E i \in Inv, fails \in BOOLEAN, thumbsOpt \in ThumbnailOptions :
          writeFileDone(i, fails, thumbsOpt)
    \/ \E i \in Inv, fails \in BOOLEAN : generateThumbnailDone(i, fails)

Spec == Init /\ [][Next]_vars

\* ------------------------------------------------------------ vocabulary
\* the exclusive section: from the start of raw capture to the end of
\* persist / thumbnail (lines 140-179)
InPipeline == {"takeScreenshot", "stat", "readPngFile", "cropScreenshot", "writePng",
               "readFile", "makeDir", "writeFile", "generateThumbnail"}

Pending == {"queued"} \cup InPipeline

Settled == {"returned", "threw"}

\* invocation i was made on an enabled capturer
Enqueued(i) == pc[i] \in Pending \cup Settled

SamePath(i, j) == Enqueued(i) /\ Enqueued(j) /\ screenshotPath[i] = screenshotPath[j]

WarningsFor(path) == Cardinality({k \in 1..Len(warnings) : warnings[k] = path})

OnPath(path) == {i \in Inv : Enqueued(i) /\ screenshotPath[i] = path}

RecordOf(i, k) ==
    /\ k \in 1..Len(screenshots)
    /\ screenshots[k].screenshotPath = screenshotPath[i]
    /\ screenshots[k].takenOnFail = forError[i]

\* ------------------------------------------------------------------ claims
\* C1: for every destination path, at most one invocation is inside the
\* exclusive section at any time.
C1_MutualExclusion ==
    \A i, j \in Inv :
        (i # j /\ pc[i] \in InPipeline /\ pc[j] \in InPipeline)
            => screenshotPath[i] # screenshotPath[j]

\* two invocations on one path, one inside the section, the other held back
C1_Witness ==
    \E i, j \in Inv :
        i # j /\ SamePath(i, j) /\ pc[i] \in InPipeline /\ pc[j] = "queued"

\* C2: of two invocations on the same destination path, the one enqueued
\* later does not start its raw capture before the earlier one has left its
\* exclusive section.
C2_SubmissionOrder ==
    \A a, b \in Inv :
        (a < b /\ SamePath(a, b) /\ pc[b] \in InPipeline \cup Settled)
            => pc[a] \in Settled

\* the later one runs after having waited for the earlier one
C2_Witness ==
    \E a, b \in Inv :
        /\ a < b /\ SamePath(a, b)
        /\ pc[a] \in Settled /\ pc[b] \in InPipeline
        /\ WarningsFor(screenshotPath[b]) >= 1

\* C3: a failure inside the exclusive section releases the key as a success
\* does: a settled invocation holds no key, every queued invocation is
\* either next under its key or waits behind a live one, and an invocation
\* fails only out of its own pipeline, never while it is still queued.
C3_KeyFree ==
    /\ \A i \in Inv : pc[i] \in Settled =>
          \A k \in DOMAIN actions : \A n \in 1..Len(actions[k]) : actions[k][n] # i
    /\ \A b \in Inv : pc[b] = "queued" =>
          \/ isTurn(actions, b)
          \/ \E a \in Inv : a < b /\ SamePath(a, b) /\ pc[a] \in Pending

C3_NoPoisoning ==
    [][ /\ C3_KeyFree'
        /\ \A i \in Inv : (pc[i] = "queued" /\ pc'[i] # "queued")
                              => pc'[i] = "takeScreenshot" ]_vars

\* an invocation that waited behind a failed one has run its own pipeline
C3_Witness ==
    \E a, b \in Inv :
        /\ a < b /\ SamePath(a, b)
        /\ pc[a] = "threw" /\ pc[b] = "returned"
        /\ WarningsFor(screenshotPath[b]) >= 1

\* C4: while N invocations on one destination path are all still pending
\* (so they are concurrent), all N sit in that path's queue in the order
\* they were made, at most one of them is inside the pipeline, and exactly
\* N-1 warnings have been emitted for the path: the first emitted none, and
\* a warned invocation is enqueued like any other.
C4_ConcurrentSamePath ==
    \A i \in Inv :
        LET path == screenshotPath[i]
            S    == OnPath(path)
        IN  (Enqueued(i) /\ \A j \in S : pc[j] \in Pending) =>
                /\ WarningsFor(path) = Cardinality(S) - 1
                /\ path \in DOMAIN actions
                /\ Len(actions[path]) = Cardinality(S)
                /\ \A m, n \in 1..Len(actions[path]) :
                       m < n => actions[path][m] < actions[path][n]
                /\ \A j \in S : pc[j] \in InPipeline => j = Head(actions[path])

\* every invocation of the run targets one path, all are pending, the first
\* is inside the pipeline
C4_Witness ==
    \E path \in {screenshotPath[i] : i \in Inv} :
        /\ OnPath(path) = Inv
        /\ \A j \in Inv : pc[j] \in Pending
        /\ \E j \in Inv : pc[j] \in InPipeline
        /\ WarningsFor(path) = MaxInv - 1

\* C5: an invocation emits the collision warning exactly when, at the
\* moment it enqueues, another invocation on the same destination path is
\* queued or inside the pipeline; no other step emits a warning.
C5_WarningIffBusy ==
    [][ /\ \A i \in Inv :
              (pc[i] = "idle" /\ pc'[i] = "queued") =>
                  LET path == screenshotPath'[i]
                      busy == \E j \in Inv \ {i} :
                                  pc[j] \in Pending /\ screenshotPath[j] = path
                  IN  warnings' = IF busy THEN Append(warnings, path) ELSE warnings
        /\ (\A i \in Inv : pc[i] # "idle" \/ pc'[i] = "idle") => warnings' = warnings
      ]_vars

\* an invocation enqueued on a path whose earlier operation has completed,
\* without a warning
C5_Witness ==
    \E a, b \in Inv :
        /\ a < b /\ SamePath(a, b)
        /\ pc[a] \in Settled /\ pc[b] \in Pending
        /\ warnings = <<>>

\* C6: on a capturer constructed without a base directory every call
\* returns null and counters, queue, warnings, files, directories and the
\* screenshot list stay as constructed; no collaborator is awaited.
C6_DisabledChangesNothing ==
    ~enabled =>
        /\ \A i \in Inv : pc[i] \in {"idle", "returnedNull"}
        /\ fileIndex = InitialFileIndex
        /\ errorFileIndex = InitialFileIndex
        /\ actions = <<>>
        /\ warnings = <<>>
        /\ fs = <<>>
        /\ dirs = {}
        /\ screenshots = <<>>

\* every invocation of the run was made on a disabled capturer
C6_Witness == ~enabled /\ \A i \in Inv : pc[i] = "returnedNull"

\* C7: on an enabled capturer fileIndex has advanced by the number of
\* captureAction invocations made without explicit path and errorFileIndex
\* by the number of captureError invocations made without explicit path,
\* from the moment each is enqueued and whatever became of its pipeline.
C7_CounterAccounting ==
    enabled =>
        /\ fileIndex = InitialFileIndex
              + Cardinality({i \in Inv : Enqueued(i) /\ ~forError[i] /\ ~explicitPath[i]})
        /\ errorFileIndex = InitialFileIndex
              + Cardinality({i \in Inv : Enqueued(i) /\ forError[i] /\ ~explicitPath[i]})

\* one counted invocation failed, another of the other reason returned
\* without a payload
C7_Witness ==
    \E i, j \in Inv :
        /\ ~explicitPath[i] /\ ~explicitPath[j] /\ forError[i] # forError[j]
        /\ pc[i] = "threw" /\ pc[j] = "returned"
        /\ \E k \in 1..Len(screenshots) :
              RecordOf(j, k) /\ screenshots[k].screenshotData = NoData
        /\ fileIndex = InitialFileIndex + 1
        /\ errorFileIndex = InitialFileIndex + 1

\* C8: an invocation with an explicit path changes neither counter; a
\* captureAction never changes errorFileIndex and a captureError never
\* changes fileIndex.
C8_ExplicitPathFrame ==
    [][ \A i \in Inv :
            (pc[i] = "idle" /\ pc'[i] # "idle") =>
                /\ explicitPath'[i] => UNCHANGED counters
                /\ ~forError'[i] => errorFileIndex' = errorFileIndex
                /\ forError'[i] => fileIndex' = fileIndex ]_vars

\* invocations of both reasons with explicit paths have been made and the
\* counters are as constructed
C8_Witness ==
    /\ \E i, j \in Inv :
          /\ Enqueued(i) /\ explicitPath[i] /\ forError[i]
          /\ Enqueued(j) /\ explicitPath[j] /\ ~forError[j]
    /\ fileIndex = InitialFileIndex
    /\ errorFileIndex = InitialFileIndex

\* C9: when the raw capture of an invocation has returned without creating
\* the staging file, the next thing the invocation does is return, with a
\* record of empty payload appended: no read, crop, write or thumbnail, and
\* no failure.
C9_ToleratedMissingOutput ==
    [][ \A i \in Inv :
            (produced[i] = "none" /\ pc'[i] # pc[i]) =>
                /\ pc'[i] = "returned"
                /\ screenshots' = Append(screenshots,
                        ScreenshotRecord(screenshotPath[i], NoData, forError[i])) ]_vars

\* the files at the destination and thumbnail path of invocation i, and the
\* directories, are the same before and after the step
PublishUntouched(i) ==
    /\ dirs' = dirs
    /\ \A p \in {screenshotPath[i], _getThumbnailPath(screenshotPath[i])} :
          /\ p \in DOMAIN fs' <=> p \in DOMAIN fs
          /\ p \in DOMAIN fs => fs'[p] = fs[p]

\* C10: with autoTakeOnFails set, no step of a captureError invocation
\* creates a directory, writes its destination or its thumbnail, it never
\* awaits makeDir, writeFile or generateThumbnail, and once the staged
\* bytes are read back it returns with a record carrying exactly them; a
\* captureAction goes on to makeDir after the read-back whatever the flag,
\* and its writeFile puts the staged bytes at its destination.
C10_AutoTakeOnFails ==
    [][ \A i \in Inv :
            /\ (autoTakeOnFails /\ forError'[i] /\ Enqueued(i)') =>
                  pc'[i] \notin {"makeDir", "writeFile", "generateThumbnail"}
            /\ (autoTakeOnFails /\ forError[i] /\ Enqueued(i) /\ pc'[i] # pc[i]) =>
                  PublishUntouched(i)
            /\ (autoTakeOnFails /\ forError[i] /\ pc[i] = "readFile"
                    /\ pc'[i] \notin {"readFile", "threw"}) =>
                  /\ pc'[i] = "returned"
                  /\ screenshots' = Append(screenshots,
                          ScreenshotRecord(screenshotPath[i],
                                           fs[tempPathOf(screenshotPath[i])], TRUE))
            /\ (~forError[i] /\ pc[i] = "readFile" /\ pc'[i] \notin {"readFile", "threw"}) =>
                  pc'[i] = "makeDir"
            /\ (~forError[i] /\ pc[i] = "writeFile" /\ pc'[i] \notin {"writeFile", "threw"}) =>
                  /\ screenshotPath[i] \in DOMAIN fs'
                  /\ fs'[screenshotPath[i]] = fs[tempPathOf(screenshotPath[i])]
      ]_vars

\* under the flag, a captureError has returned with a payload and left no
\* destination file or directory, and a captureAction has published
C10_Witness ==
    /\ autoTakeOnFails
    /\ \E i, j \in Inv :
          /\ forError[i] /\ pc[i] = "returned"
          /\ \E k \in 1..Len(screenshots) :
                RecordOf(i, k) /\ screenshots[k].screenshotData # NoData
          /\ screenshotPath[i] \notin DOMAIN fs
          /\ dirname(screenshotPath[i]) \notin dirs
          /\ ~forError[j] /\ pc[j] = "returned"
          /\ screenshotPath[j] \in DOMAIN fs

\* C11: a record is appended only by the step in which an invocation
\* returns its path, out of its own pipeline and with its key released; the
\* record is added at the end, carries the reason and the returned path,
\* and leaves the earlier records as they were; an invocation that has
\* returned, returned null or thrown does nothing more.
C11_LedgerAccounting ==
    [][ /\ \A i \in Inv :
              (pc'[i] = "returned" /\ pc[i] # "returned") =>
                  /\ pc[i] \in InPipeline
                  /\ \A k \in DOMAIN actions' :
                        \A n \in 1..Len(actions'[k]) : actions'[k][n] # i
                  /\ Len(screenshots') = Len(screenshots) + 1
                  /\ SubSeq(screenshots', 1, Len(screenshots)) = screenshots
                  /\ screenshots'[Len(screenshots')].takenOnFail = forError[i]
                  /\ screenshots'[Len(screenshots')].screenshotPath = screenshotPath[i]
        /\ (\A i \in Inv : pc'[i] = "returned" => pc[i] = "returned")
              => screenshots' = screenshots
        /\ \A i \in Inv :
              pc[i] \in {"returned", "returnedNull", "threw"} => pc'[i] = pc[i]
      ]_vars

\* a captureAction and a captureError have both returned and the list holds
\* one record for each, with its reason
C11_Witness ==
    /\ Len(screenshots) = 2
    /\ \E i, j \in Inv :
          /\ pc[i] = "returned" /\ pc[j] = "returned"
          /\ ~forError[i] /\ forError[j]
          /\ \E k, m \in 1..2 : k # m /\ RecordOf(i, k) /\ RecordOf(j, m)

\* C12 as stated: whenever an invocation returns (and so appends its
\* record), no invocation made after it has already returned, on whatever
\* destination path.
C12_InvocationOrder ==
    [][ \A a, b \in Inv :
            (a < b /\ pc[a] # "returned" /\ pc'[a] = "returned")
                => pc[b] # "returned" ]_vars

\* C12 as amended: whenever an invocation returns, no invocation made after
\* it on the same destination path has already returned; across different
\* destination paths the records are in the order the pipelines complete.
C12_SamePathOrder ==
    [][ \A a, b \in Inv :
            (a < b /\ SamePath(a, b) /\ pc[a] # "returned" /\ pc'[a] = "returned")
                => pc[b] \in Pending ]_vars

\* two invocations on one destination path, the later one enqueued while
\* the earlier one was pending, have both appended their records
C12_Witness ==
    \E a, b \in Inv :
        /\ a < b /\ SamePath(a, b)
        /\ pc[a] = "returned" /\ pc[b] = "returned"
        /\ WarningsFor(screenshotPath[a]) >= 1
        /\ Len(screenshots) = 2

\* the steps of invocation i inside the pipeline
PipelineStep(i) ==
    \/ \E outcome \in {"file", "nofile", "throw"} : takeScreenshotDone(i, outcome)
    \/ \E statFails \in BOOLEAN : statDone(i, statFails)
    \/ \E fails \in BOOLEAN, crop \in BOOLEAN : readPngFileDone(i, fails, crop)
    \/ \E outcome \in {"cropped", "none", "throw"} : cropScreenshotDone(i, outcome)
    \/ \E fails \in BOOLEAN : writePngDone(i, fails)
    \/ \E fails \in BOOLEAN : readFileDone(i, fails)
    \/ \E fails \in BOOLEAN : makeDirDone(i, fails)
    \/ \E fails \in BOOLEAN, thumbsOpt \in ThumbnailOptions : writeFileDone(i, fails, thumbsOpt)
    \/ \E fails \in BOOLEAN : generateThumbnailDone(i, fails)

\* C13: an invocation waits only for invocations on its own destination
\* path: a queued invocation with no earlier invocation pending on its path
\* can start its pipeline, and an invocation inside the pipeline can take
\* its next step, wherever the invocations on other paths are.
C13_NoWaitingAcrossKeys ==
    \A b \in Inv :
        /\ (pc[b] = "queued"
              /\ ~ \E a \in Inv : a # b /\ SamePath(a, b) /\ pc[a] \in Pending)
              => ENABLED StartPipeline(b)
        /\ pc[b] \in InPipeline => ENABLED PipelineStep(b)

\* an invocation made later on another path has run its whole pipeline
\* while the earlier one is still waiting for its raw capture
C13_Witness ==
    \E a, b \in Inv :
        /\ a < b /\ Enqueued(a) /\ Enqueued(b)
        /\ screenshotPath[a] # screenshotPath[b]
        /\ pc[a] = "takeScreenshot"
        /\ pc[b] = "returned"
        /\ screenshotPath[b] \in DOMAIN fs

\* the step changes the file at path p
Writes(p) ==
    \/ (p \in DOMAIN fs') # (p \in DOMAIN fs)
    \/ p \in DOMAIN fs /\ p \in DOMAIN fs' /\ fs'[p] # fs[p]

\* C14: inside one invocation the awaits follow one another in the order
\* raw capture, existence check, image read, crop, (staged write,) read
\* back, mkdir, destination write, thumbnail; the destination is written
\* only by the writeFile step, with the bytes read back from the existing
\* staging file; the thumbnail is asked for and written only once the
\* destination holds those bytes; the record is appended only by a step
\* that leaves the existence check, the read-back, the destination write
\* or the thumbnail.
C14_StageOrder ==
    [][ \A i \in Inv : pc'[i] # pc[i] =>
          /\ pc'[i] = "stat" => pc[i] = "takeScreenshot"
          /\ pc'[i] = "readPngFile" =>
                pc[i] = "stat" /\ tempPathOf(screenshotPath[i]) \in DOMAIN fs
          /\ pc'[i] = "cropScreenshot" => pc[i] = "readPngFile"
          /\ pc'[i] = "writePng" => pc[i] = "cropScreenshot"
          /\ pc'[i] = "readFile" => pc[i] \in {"cropScreenshot", "writePng"}
          /\ pc'[i] = "makeDir" =>
                /\ pc[i] = "readFile"
                /\ screenshotData'[i] = fs[tempPathOf(screenshotPath[i])]
          /\ pc'[i] = "writeFile" => pc[i] = "makeDir"
          /\ Writes(screenshotPath[i]) =>
                /\ pc[i] = "writeFile"
                /\ fs'[screenshotPath[i]] = screenshotData[i]
                /\ screenshotData[i] = fs[tempPathOf(screenshotPath[i])]
          /\ pc'[i] = "generateThumbnail" =>
                /\ pc[i] = "writeFile"
                /\ screenshotPath[i] \in DOMAIN fs'
                /\ fs'[screenshotPath[i]] = screenshotData[i]
          /\ Writes(_getThumbnailPath(screenshotPath[i])) =>
                /\ pc[i] = "generateThumbnail"
                /\ screenshotPath[i] \in DOMAIN fs
          /\ pc'[i] = "returned" =>
                /\ pc[i] \in {"stat", "readFile", "writeFile", "generateThumbnail"}
                /\ pc[i] \in {"writeFile", "generateThumbnail"} =>
                      /\ screenshotPath[i] \in DOMAIN fs'
                      /\ screenshots'[Len(screenshots')].screenshotData
                            = fs'[screenshotPath[i]]
      ]_vars

\* an invocation has returned after writing its destination and its
\* thumbnail, and its record carries the bytes at the destination
C14_Witness ==
    \E i \in Inv :
        /\ pc[i] = "returned"
        /\ screenshotPath[i] \in DOMAIN fs
        /\ _getThumbnailPath(screenshotPath[i]) \in DOMAIN fs
        /\ \E k \in 1..Len(screenshots) :
              RecordOf(i, k) /\ screenshots[k].screenshotData = fs[screenshotPath[i]]

\* C15 as stated: the cropping collaborator is awaited by an invocation only
\* if its request carried a crop rectangle or a marker seed.
C15_CropperOnlyIfRequested ==
    \A i \in Inv : pc[i] = "cropScreenshot" => cropRequested[i]

\* C15 amended: every invocation whose staged image was read invokes the
\* cropping collaborator next, whether or not its request carried a crop
\* rectangle or a marker seed; the cropper's settling leaves the files
\* alone, and the staged file is overwritten only by the writePng that
\* follows a modified image returned by the cropper.
C15_CropperAlwaysInvoked ==
    [][ \A i \in Inv : pc'[i] # pc[i] =>
          /\ pc[i] = "readPngFile" => pc'[i] \in {"cropScreenshot", "threw"}
          /\ pc'[i] = "cropScreenshot" =>
                /\ pc[i] = "readPngFile"
                /\ image'[i] = fs[tempPathOf(screenshotPath[i])]
          /\ pc[i] = "cropScreenshot" =>
                /\ pc'[i] \in {"writePng", "readFile", "threw"}
                /\ fs' = fs
          /\ pc'[i] = "writePng" => pc[i] = "cropScreenshot" /\ image'[i] # NoData
          /\ pc[i] = "writePng" /\ pc'[i] = "readFile" =>
                fs' = writeTo(fs, tempPathOf(screenshotPath[i]), image[i])
      ]_vars

\* the cropper is awaited by an invocation whose request carried neither a
\* crop rectangle nor a marker seed, with the staged image it has just read
C15_Witness ==
    \E i \in Inv :
        /\ pc[i] = "cropScreenshot"
        /\ ~ cropRequested[i]
        /\ tempPathOf(screenshotPath[i]) \in DOMAIN fs
        /\ image[i] = fs[tempPathOf(screenshotPath[i])]

\* the collaborators whose failure is fatal to the invocation
FatalStages ==
    {"takeScreenshot", "readPngFile", "cropScreenshot", "writePng", "readFile",
     "makeDir", "writeFile", "generateThumbnail"}

\* C16: an invocation fails to its caller only from one of the awaits of
\* the exclusive section other than the existence check; the failing step
\* appends no record and leaves both counters as path resolution set them;
\* a failed invocation stays failed (it never returns a path), and the list
\* holds exactly one record per returned invocation, none for a failed one.
C16_StageFailure ==
    [][ /\ \A i \in Inv :
              /\ (pc'[i] = "threw" /\ pc[i] # "threw") =>
                    /\ pc[i] \in FatalStages
                    /\ screenshots' = screenshots
                    /\ fileIndex' = fileIndex
                    /\ errorFileIndex' = errorFileIndex
                    /\ (~ explicitPath[i]) =>
                          IF forError[i] THEN errorFileIndex' > InitialFileIndex
                                         ELSE fileIndex' > InitialFileIndex
              /\ pc[i] = "threw" => pc'[i] = "threw"
        /\ Len(screenshots') = Cardinality({i \in Inv : pc'[i] = "returned"})
      ]_vars

\* an invocation on a generated path has failed after its raw capture was
\* staged, no record was appended and its counter stays advanced
C16_Witness ==
    \E i \in Inv :
        /\ pc[i] = "threw"
        /\ ~ explicitPath[i] /\ ~ forError[i]
        /\ tempPathOf(screenshotPath[i]) \in DOMAIN fs
        /\ fileIndex = InitialFileIndex + 1
        /\ screenshots = <<>>
        /\ \A j \in Inv : j # i => pc[j] = "idle"

\* the bytes invocation i captured, as staged or after its own crop
OwnBytes(i) == {RawImage(i), CroppedOf(RawImage(i))}

\* C17: the record appended by an invocation carries no bytes or bytes of
\* its own raw capture (after its own crop), and what one of its steps
\* writes to its destination file are bytes of its own raw capture; never
\* the bytes of another invocation.
C17_PayloadProvenance ==
    [][ \A i \in Inv : pc'[i] # pc[i] =>
          /\ pc'[i] = "returned" =>
                screenshots'[Len(screenshots')].screenshotData
                    \in OwnBytes(i) \cup {NoData}
          /\ Writes(screenshotPath[i]) => fs'[screenshotPath[i]] \in OwnBytes(i)
      ]_vars

\* the records of the list whose destination is path, in list order
RecordsOn(path) == SelectSeq(screenshots, LAMBDA r : r.screenshotPath = path)

\* the position of invocation i among the invocations on its path
RankOnPath(i) ==
    Cardinality({j \in OnPath(screenshotPath[i]) : j <= i})

\* every invocation on path has returned after publishing a payload
AllPublished(path) ==
    /\ \A i \in OnPath(path) :
          pc[i] = "returned" /\ ~ skipsPublish(forError[i], autoTakeOnFails)
    /\ \A n \in 1..Len(RecordsOn(path)) :
          RecordsOn(path)[n].screenshotData # NoData

\* C18: once several invocations on one destination path have all returned
\* after publishing, the destination file holds the bytes captured by the
\* last of them to be enqueued, and the record of each holds the bytes of
\* its own capture.
C18_LastWriterWins ==
    \A path \in {screenshotPath[i] : i \in {j \in Inv : Enqueued(j)}} :
        (Cardinality(OnPath(path)) >= 2 /\ AllPublished(path)) =>
            /\ path \in DOMAIN fs
            /\ \A i \in OnPath(path) :
                  /\ (\A j \in OnPath(path) : j <= i) => fs[path] \in OwnBytes(i)
                  /\ RecordsOn(path)[RankOnPath(i)].screenshotData \in OwnBytes(i)

\* ------------------------------------------- the client area of a request
\* A request with any page geometry, or none, on a capturer at rest.
InitDim ==
    /\ enabled = TRUE
    /\ autoTakeOnFails = FALSE
    /\ defaultThumbnails = TRUE
    /\ fileIndex = InitialFileIndex
    /\ errorFileIndex = InitialFileIndex
    /\ actions = <<>>
    /\ warnings = <<>>
    /\ fs = <<>>
    /\ dirs = {}
    /\ screenshots = <<>>
    /\ pc = [i \in Inv |-> "idle"]
    /\ forError = [i \in Inv |-> FALSE]
    /\ explicitPath = [i \in Inv |-> FALSE]
    /\ screenshotPath = [i \in Inv |-> NoPath]
    /\ cropRequested = [i \in Inv |-> FALSE]
    /\ produced = [i \in Inv |-> "pending"]
    /\ image = [i \in Inv |-> NoData]
    /\ screenshotData = [i \in Inv |-> NoData]
    /\ pageDimensions \in PageGeometries \cup {NoGeometry}
    /\ clientAreaDimensions = NotComputed

\* line 141: the client area is computed from the geometry of the request
getClientAreaDimensions ==
    /\ clientAreaDimensions = NotComputed
    /\ clientAreaDimensions' = _getClientAreaDimensions(pageDimensions)
    /\ UNCHANGED <<pageDimensions, config, counters, actions, warnings, disk,
                   screenshots, pc, locals>>

NextDim == getClientAreaDimensions

SpecDim == InitDim /\ [][NextDim]_vars

\* r is the scrollbar-free dimension the rule gives for the three
ObeysRule(r, fullDim, documentDim, bodyDim) ==
    /\ bodyDim > fullDim => r = documentDim
    /\ (bodyDim <= fullDim /\ documentDim > fullDim) => r = bodyDim
    /\ (bodyDim <= fullDim /\ documentDim <= fullDim) =>
          r \in {documentDim, bodyDim} /\ r >= documentDim /\ r >= bodyDim

\* n is value times the ratio, floored
IsFloorOfProduct(n, value, dpr) ==
    n * dpr[2] <= value * dpr[1] /\ value * dpr[1] < (n + 1) * dpr[2]

\* C19: the client area computed for a request without page geometry is
\* null; otherwise its width and height are, floored, the device pixel
\* ratio times the dimension that is documentDim when bodyDim > fullDim,
\* else bodyDim when documentDim > fullDim, else the larger of documentDim
\* and bodyDim.
C19_DimensionRule ==
    clientAreaDimensions # NotComputed =>
        IF pageDimensions = NoGeometry
        THEN clientAreaDimensions = Null
        ELSE /\ clientAreaDimensions # Null
             /\ \E w, h \in 0..(2 * MaxDim) :
                   /\ ObeysRule(w, pageDimensions.innerWidth,
                                pageDimensions.documentWidth, pageDimensions.bodyWidth)
                   /\ ObeysRule(h, pageDimensions.innerHeight,
                                pageDimensions.documentHeight, pageDimensions.bodyHeight)
                   /\ IsFloorOfProduct(clientAreaDimensions.width, w, pageDimensions.dpr)
                   /\ IsFloorOfProduct(clientAreaDimensions.height, h, pageDimensions.dpr)

\* a client area computed where the body is wider than the viewport, the
\* document taller than the viewport and the body not, two widths equal,
\* and the ratio fractional
C19_Witness ==
    /\ clientAreaDimensions \notin {NotComputed, Null}
    /\ pageDimensions.bodyWidth > pageDimensions.innerWidth
    /\ pageDimensions.documentWidth = pageDimensions.innerWidth
    /\ pageDimensions.documentHeight > pageDimensions.innerHeight
    /\ pageDimensions.bodyHeight <= pageDimensions.innerHeight
    /\ pageDimensions.bodyHeight = 1
    /\ pageDimensions.documentWidth = 1
    /\ pageDimensions.dpr = <<3, 2>>
    /\ clientAreaDimensions = [width |-> 1, height |-> 1]

====
